---- MODULE Spec2Model ----
(***************************************************************************)
(* State-machine model of nixos-opensearch-generator (src/src/main.rs).    *)
(*                                                                         *)
(* One run of `main`: fetch the web page, locate the OpenSearch link in    *)
(* its <head>, fetch the descriptor, deserialize it into an                *)
(* OpenSearchDescription, serialize that into Nix text and print it.       *)
(* Every `expect`/`assert!` of the source is a panic that ends the run.    *)
(*                                                                         *)
(* Text is modelled as sequences of pieces (strings); an Option<T> is a    *)
(* record [some, v]; the emitted Nix buffer is a sequence of lines, one    *)
(* per '\n'-terminated line the source appends to `buf`.                   *)
(***************************************************************************)
EXTENDS Integers, Sequences, FiniteSets, TLC

VARIABLES
    pc,               \* position of `main`
    verbose,          \* Args.verbose
    website,          \* Args.website
    overflow_checks,  \* build profile: TRUE = arithmetic overflow panics
    sort_impl,        \* which small-slice insertion sort the toolchain's slice::sort uses
    net_page,         \* what the web server answers for the page
    net_descriptor,   \* what the web server answers for the descriptor
    webpage,          \* parsed page (children of the root element)
    opensearch_url,   \* result of select_opensearch_url
    opensearch,       \* the OpenSearchDescription
    nix,              \* the `nix` String handed to into_nix
    stdout,           \* lines printed
    panic,            \* panic message, "" while the run has not failed
    stages            \* stages executed so far, in order

vars == <<pc, verbose, website, overflow_checks, sort_impl, net_page, net_descriptor,
          webpage, opensearch_url, opensearch, nix, stdout, panic, stages>>

----------------------------------------------------------------------------
(* Bounds of the explored inputs *)

MaxNodes == 4
MaxValues == 4
MaxQueryLen == 3
MaxImages == 3

----------------------------------------------------------------------------
(* Program constants *)

META_TAG_REL == "search"
META_TAG_TYPE == "application/opensearchdescription+xml"

\* u16: width and height are Option<u16>, and their product is computed in u16
U16_MODULUS == 65536

----------------------------------------------------------------------------
(* Generic helpers *)

None == [some |-> FALSE, v |-> ""]
Some(x) == [some |-> TRUE, v |-> x]

\* Option<u16>
NoneU16 == [some |-> FALSE, v |-> 0]

\* Option<u16>::unwrap_or_default
unwrap_or_default(opt) == IF opt.some THEN opt.v ELSE 0

Front(s) == SubSeq(s, 1, Len(s) - 1)

RECURSIVE SeqsUpTo(_, _)
SeqsUpTo(S, n) ==
    IF n = 0 THEN {<<>>}
    ELSE LET shorter == SeqsUpTo(S, n - 1)
         IN shorter \cup {Append(s, x) : s \in {t \in shorter : Len(t) = n - 1}, x \in S}

----------------------------------------------------------------------------
(* reqwest::Url, as far as the program uses it *)

\* A parsed absolute URL: origin ("https://host"), path segments and Option query.
\* The query is a sequence of characters.
MkUrl(origin, path, query) == [origin |-> origin, path |-> path, query |-> query]

NoUrl == MkUrl("", <<>>, [some |-> FALSE, v |-> <<>>])
NoQuery == [some |-> FALSE, v |-> <<>>]
SomeQuery(q) == [some |-> TRUE, v |-> q]

\* Url::set_query(None)
set_query_none(url) == [url EXCEPT !.query = NoQuery]

\* Url::query().is_some()
query_is_some(url) == url.query.some

RECURSIVE PathDisplay(_)
PathDisplay(path) ==
    IF path = <<>> THEN <<>> ELSE <<"/", Head(path)>> \o PathDisplay(Tail(path))

\* impl Display for Url: the serialization, as text pieces
UrlDisplay(url) ==
    <<url.origin>> \o PathDisplay(url.path)
        \o (IF url.query.some THEN <<"?">> \o url.query.v ELSE <<>>)

\* A reference as found in an href attribute.
\*   absolute:  "https://host/a/b"   path:     "/a/b"
\*   relative:  "a/b"                empty:    ""
\*   invalid:   "//" (no host), which Url::join rejects
MkRef(form, origin, path) == [form |-> form, origin |-> origin, path |-> path]

\* Url::join: resolve a reference against a base URL. [ok, url]
UrlJoin(base, ref) ==
    CASE ref.form = "absolute" ->
           [ok |-> TRUE, url |-> MkUrl(ref.origin, ref.path, NoQuery)]
      [] ref.form = "path" ->
           [ok |-> TRUE, url |-> MkUrl(base.origin, ref.path, NoQuery)]
      [] ref.form = "relative" ->
           [ok |-> TRUE, url |-> MkUrl(base.origin, Front(base.path) \o ref.path, NoQuery)]
      [] ref.form = "empty" ->
           [ok |-> TRUE, url |-> base]
      [] OTHER ->
           [ok |-> FALSE, url |-> NoUrl]

\* form_urlencoded decoding of one character: '+' becomes a space
DecodeChar(c) == IF c = "+" THEN " " ELSE c

DecodeText(s) == [i \in 1..Len(s) |-> DecodeChar(s[i])]

\* Split a character sequence at every '&'
RECURSIVE SplitAmp(_, _)
SplitAmp(s, cur) ==
    IF s = <<>> THEN <<cur>>
    ELSE IF Head(s) = "&" THEN <<cur>> \o SplitAmp(Tail(s), <<>>)
    ELSE SplitAmp(Tail(s), Append(cur, Head(s)))

\* Position of the first '=' of a segment, 0 when there is none
RECURSIVE FirstEq(_, _)
FirstEq(s, i) ==
    IF i > Len(s) THEN 0 ELSE IF s[i] = "=" THEN i ELSE FirstEq(s, i + 1)

\* One name/value pair of a non-empty segment
ParsePair(seg) ==
    LET e == FirstEq(seg, 1)
    IN IF e = 0
       THEN [name |-> DecodeText(seg), value |-> <<>>]
       ELSE [name |-> DecodeText(SubSeq(seg, 1, e - 1)),
             value |-> DecodeText(SubSeq(seg, e + 1, Len(seg)))]

RECURSIVE ParseSegments(_)
ParseSegments(segs) ==
    IF segs = <<>> THEN <<>>
    ELSE IF Head(segs) = <<>> THEN ParseSegments(Tail(segs))
    ELSE <<ParsePair(Head(segs))>> \o ParseSegments(Tail(segs))

\* Url::query_pairs: the (name, value) pairs of the query, in order; empty
\* segments are skipped, and a URL without query has no pairs.
query_pairs(url) ==
    IF url.query.some THEN ParseSegments(SplitAmp(url.query.v, <<>>)) ELSE <<>>

----------------------------------------------------------------------------
(* The parsed HTML document *)

\* An element node: name, the attributes the program reads, and child nodes.
MkElement(name, rel, type, href, children) ==
    [kind |-> "element", name |-> name, rel |-> rel, type |-> type, href |-> href,
     children |-> children]

NoRef == [some |-> FALSE, v |-> MkRef("empty", "", <<>>)]
SomeRef(r) == [some |-> TRUE, v |-> r]

\* A text node
TextNode ==
    [kind |-> "text", name |-> "", rel |-> None, type |-> None, href |-> NoRef,
     children |-> <<>>]

\* ElementRef::child_elements: the children that are elements, in document order
child_elements(children) == SelectSeq(children, LAMBDA n : n.kind = "element")

\* element.attr(name).map(|attr| attr == literal).unwrap_or_default()
attr_equals(attr, literal) == IF attr.some THEN attr.v = literal ELSE FALSE

----------------------------------------------------------------------------
(* select_opensearch_url *)

LOCATE_NOT_FOUND == "Failed to locate opensearch meta tag in webpage"
LOCATE_NO_HREF == "Failed to get opensearch url from meta tag"
LOCATE_BAD_URL == "Incorrectly formatted opensearch url"

\* Mutant of is_opensearch_link: the test of the type attribute is left out
is_search_rel(element) == attr_equals(element.rel, META_TAG_REL)

\* The two nested `if`s on the rel and type attributes of a child of head
is_opensearch_link(element) ==
    /\ attr_equals(element.rel, META_TAG_REL)
    /\ attr_equals(element.type, META_TAG_TYPE)

\* The inner `for head_child in root_child.child_elements()` loop from child i:
\* the first child that passes both tests, if any
RECURSIVE scan_head(_, _)
scan_head(head_children, i) ==
    IF i > Len(head_children) THEN [found |-> FALSE, element |-> TextNode]
    ELSE IF is_opensearch_link(head_children[i])
         THEN [found |-> TRUE, element |-> head_children[i]]
    ELSE scan_head(head_children, i + 1)

\* Mutant of scan_root: the loop is left after the first child named "head",
\* whether or not it held a qualifying link
RECURSIVE scan_first_head(_, _)
scan_first_head(root_children, i) ==
    IF i > Len(root_children) THEN [found |-> FALSE, element |-> TextNode]
    ELSE IF root_children[i].name = "head"
         THEN scan_head(child_elements(root_children[i].children), 1)
    ELSE scan_first_head(root_children, i + 1)

\* The outer `'root: for root_child in root.child_elements()` loop from child i:
\* every child named "head" is scanned, and `break 'root` leaves at the first hit
RECURSIVE scan_root(_, _)
scan_root(root_children, i) ==
    IF i > Len(root_children) THEN [found |-> FALSE, element |-> TextNode]
    ELSE IF root_children[i].name = "head"
         THEN LET hit == scan_head(child_elements(root_children[i].children), 1)
              IN IF hit.found THEN hit ELSE scan_root(root_children, i + 1)
    ELSE scan_root(root_children, i + 1)

\* select_opensearch_url(document, current_url): [err, url]; err is the panic
\* message, "" on success. `document` is the sequence of the root's child nodes.
select_opensearch_url(document, current_url) ==
    LET hit == scan_root(child_elements(document), 1)
    IN IF ~hit.found THEN [err |-> LOCATE_NOT_FOUND, url |-> NoUrl]
       ELSE IF ~hit.element.href.some THEN [err |-> LOCATE_NO_HREF, url |-> NoUrl]
       ELSE LET joined == UrlJoin(current_url, hit.element.href.v)
            IN IF joined.ok THEN [err |-> "", url |-> joined.url]
               ELSE [err |-> LOCATE_BAD_URL, url |-> NoUrl]

----------------------------------------------------------------------------
(* OpenSearchDescriptionXml -> OpenSearchDescription *)

MkImage(image_type, width, height, url) ==
    [image_type |-> image_type, width |-> width, height |-> height, url |-> url]

MkOpenSearchUrl(template_type, template) ==
    [template_type |-> template_type, template |-> template]

NoImage == MkImage("", NoneU16, NoneU16, NoUrl)
NoOpenSearchUrl == MkOpenSearchUrl("", NoUrl)

\* enum OpenSearchDescriptionXmlValue
XmlShortName(s) == [tag |-> "ShortName", text |-> s, image |-> NoImage, url |-> NoOpenSearchUrl]
XmlDescription(s) == [tag |-> "Description", text |-> s, image |-> NoImage, url |-> NoOpenSearchUrl]
XmlImage(i) == [tag |-> "Image", text |-> "", image |-> i, url |-> NoOpenSearchUrl]
XmlUrl(u) == [tag |-> "Url", text |-> "", image |-> NoImage, url |-> u]
XmlOther == [tag |-> "Other", text |-> "", image |-> NoImage, url |-> NoOpenSearchUrl]

MkDescription(short_name, description, images, urls) ==
    [short_name |-> short_name, description |-> description, images |-> images,
     urls |-> urls]

EmptyDescription == MkDescription("", "", <<>>, <<>>)

MULTIPLE_SHORT_NAMES == "Multiple short name values were provided"
MULTIPLE_DESCRIPTIONS == "Multiple descriptions were provided"
DESERIALIZE_FAILED == "Failed to deserialize opensearch xml data"
NO_URLS == "OpenSearch requires at least one defined URL; none were found."

\* Mutant of once_cell_set: a second value replaces the first
once_cell_overwrite(cell, value, message) == [err |-> "", cell |-> Some(value)]

\* OnceCell::set(value).expect(message): [err, cell]
once_cell_set(cell, value, message) ==
    IF cell.some THEN [err |-> message, cell |-> cell]
    ELSE [err |-> "", cell |-> Some(value)]

\* The `for xml_value in value.values` loop from value i. acc holds the locals
\* images, urls, short_name, description; err is the panic message of an expect.
RECURSIVE from_xml_loop(_, _, _)
from_xml_loop(values, i, acc) ==
    IF i > Len(values) THEN acc
    ELSE LET x == values[i]
         IN CASE x.tag = "Url" ->
                   from_xml_loop(values, i + 1, [acc EXCEPT !.urls = Append(@, x.url)])
              [] x.tag = "Image" ->
                   from_xml_loop(values, i + 1, [acc EXCEPT !.images = Append(@, x.image)])
              [] x.tag = "ShortName" ->
                   LET set == once_cell_set(acc.short_name, x.text, MULTIPLE_SHORT_NAMES)
                   IN IF set.err # "" THEN [acc EXCEPT !.err = set.err]
                      ELSE from_xml_loop(values, i + 1, [acc EXCEPT !.short_name = set.cell])
              [] x.tag = "Description" ->
                   LET set == once_cell_set(acc.description, x.text, MULTIPLE_DESCRIPTIONS)
                   IN IF set.err # "" THEN [acc EXCEPT !.err = set.err]
                      ELSE from_xml_loop(values, i + 1, [acc EXCEPT !.description = set.cell])
              [] OTHER -> from_xml_loop(values, i + 1, acc)

\* impl From<OpenSearchDescriptionXml> for OpenSearchDescription: [err, description]
from_xml(values) ==
    LET acc == from_xml_loop(values, 1,
                   [err |-> "", images |-> <<>>, urls |-> <<>>,
                    short_name |-> None, description |-> None])
    IN IF acc.err # "" THEN [err |-> acc.err, description |-> EmptyDescription]
       ELSE [err |-> "",
             description |->
                 MkDescription(IF acc.short_name.some THEN acc.short_name.v ELSE "",
                               IF acc.description.some THEN acc.description.v ELSE "",
                               acc.images, acc.urls)]

\* deserialize_opensearch_xml: the XML deserializer yields the tagged values of a
\* well-formed document, which serde converts with from_xml
deserialize_opensearch_xml(raw) ==
    IF ~raw.well_formed THEN [err |-> DESERIALIZE_FAILED, description |-> EmptyDescription]
    ELSE from_xml(raw.values)

----------------------------------------------------------------------------
(* impl Ord for OpenSearchImage, and the sort of into_nix *)

MULTIPLY_OVERFLOW == "attempt to multiply with overflow"

\* a * b on u16 operands: with overflow checks a product that does not fit
\* panics, without them it wraps. [overflow, v]
mul_u16(a, b, checks) ==
    IF a * b >= U16_MODULUS /\ checks THEN [overflow |-> TRUE, v |-> 0]
    ELSE [overflow |-> FALSE, v |-> (a * b) % U16_MODULUS]

\* The branch of cmp for images of one type: size_order, the order of the
\* other's area against self's, so that the larger area comes first
size_order(self, other, checks) ==
    LET width == unwrap_or_default(self.width)
        height == unwrap_or_default(self.height)
        other_width == unwrap_or_default(other.width)
        other_height == unwrap_or_default(other.height)
        other_area == mul_u16(other_width, other_height, checks)
        area == mul_u16(width, height, checks)
    IN IF other_area.overflow \/ area.overflow THEN "Panic"
       ELSE IF other_area.v < area.v THEN "Less"
       ELSE IF other_area.v > area.v THEN "Greater"
       ELSE "Equal"

\* Mutant of cmp: images are ordered by area whatever their types
cmp_across_types(self, other, checks) == size_order(self, other, checks)

\* OpenSearchImage::cmp(self, other): "Less", "Equal", "Greater", or "Panic"
\* when a product overflows in a build with overflow checks
cmp(self, other, checks) ==
    IF self.image_type = other.image_type
    THEN size_order(self, other, checks)
    ELSE "Equal"

\* insert_tail of insertion_sort_shift_left: move x left past every element it
\* is less than. [panicked, v]
RECURSIVE insert_tail(_, _, _)
insert_tail(sorted, x, checks) ==
    IF sorted = <<>> THEN [panicked |-> FALSE, v |-> <<x>>]
    ELSE LET last == sorted[Len(sorted)]
             order == cmp(x, last, checks)
         IN IF order = "Panic" THEN [panicked |-> TRUE, v |-> Append(sorted, x)]
            ELSE IF order = "Less"
                 THEN LET rest == insert_tail(Front(sorted), x, checks)
                      IN [panicked |-> rest.panicked, v |-> Append(rest.v, last)]
            ELSE [panicked |-> FALSE, v |-> Append(sorted, x)]

\* insertion_sort_shift_left(v, 1, is_less): elements i.. are inserted, one by
\* one, into the sorted prefix
RECURSIVE insertion_sort_shift_left(_, _, _)
insertion_sort_shift_left(v, i, checks) ==
    IF i > Len(v) THEN [panicked |-> FALSE, v |-> v]
    ELSE LET ins == insert_tail(SubSeq(v, 1, i - 1), v[i], checks)
             next == ins.v \o SubSeq(v, i + 1, Len(v))
         IN IF ins.panicked THEN [panicked |-> TRUE, v |-> next]
            ELSE insertion_sort_shift_left(next, i + 1, checks)

\* insert_head of the older merge sort: move x right past every element that
\* is less than it. [panicked, v]
RECURSIVE insert_head(_, _, _)
insert_head(x, sorted, checks) ==
    IF sorted = <<>> THEN [panicked |-> FALSE, v |-> <<x>>]
    ELSE LET first == Head(sorted)
             order == cmp(first, x, checks)
         IN IF order = "Panic" THEN [panicked |-> TRUE, v |-> <<x>> \o sorted]
            ELSE IF order = "Less"
                 THEN LET rest == insert_head(x, Tail(sorted), checks)
                      IN [panicked |-> rest.panicked, v |-> <<first>> \o rest.v]
            ELSE [panicked |-> FALSE, v |-> <<x>> \o sorted]

\* The older small-slice path: for i in (0..len-1).rev() { insert_head(v[i..]) }
RECURSIVE insertion_sort_from_right(_, _, _)
insertion_sort_from_right(v, i, checks) ==
    IF i < 1 THEN [panicked |-> FALSE, v |-> v]
    ELSE LET ins == insert_head(v[i], SubSeq(v, i + 1, Len(v)), checks)
             next == SubSeq(v, 1, i - 1) \o ins.v
         IN IF ins.panicked THEN [panicked |-> TRUE, v |-> next]
            ELSE insertion_sort_from_right(next, i - 1, checks)

\* sorted_images.sort(): slice::sort on a short slice is an insertion sort; which
\* one depends on the toolchain. [panicked, v]
sort(images, checks, impl) ==
    IF impl = "shift_left" THEN insertion_sort_shift_left(images, 2, checks)
    ELSE insertion_sort_from_right(images, Len(images) - 1, checks)

----------------------------------------------------------------------------
(* into_nix *)

\* One '\n'-terminated line appended to buf: what the line is, and the text
\* formatted into it
Line(key, text) == [key |-> key, text |-> text]

\* The lines of one `{ name = ..; value = ..; }` element of params
ParamLines(pair) ==
    <<Line("param_open", <<>>), Line("name", pair.name), Line("value", pair.value),
      Line("param_close", <<>>)>>

RECURSIVE ParamsLines(_)
ParamsLines(pairs) ==
    IF pairs = <<>> THEN <<>> ELSE ParamLines(Head(pairs)) \o ParamsLines(Tail(pairs))

\* Mutant of OpenSearchUrl_into_nix: params is written when there are pairs,
\* not when there is a query
into_nix_params_if_pairs(self) ==
    LET queryless_template == set_query_none(self.template)
    IN <<Line("url_open", <<>>),
         Line("template", UrlDisplay(queryless_template)),
         Line("type", <<self.template_type>>)>>
       \o (IF query_pairs(self.template) # <<>>
           THEN <<Line("params_open", <<>>)>>
                \o ParamsLines(query_pairs(self.template))
                \o <<Line("params_close", <<>>)>>
           ELSE <<>>)
       \o <<Line("url_close", <<>>)>>

\* OpenSearchUrl::into_nix: the lines appended to buf
OpenSearchUrl_into_nix(self) ==
    LET queryless_template == set_query_none(self.template)
    IN <<Line("url_open", <<>>),
         Line("template", UrlDisplay(queryless_template)),
         Line("type", <<self.template_type>>)>>
       \o (IF query_is_some(self.template)
           THEN <<Line("params_open", <<>>)>>
                \o ParamsLines(query_pairs(self.template))
                \o <<Line("params_close", <<>>)>>
           ELSE <<>>)
       \o <<Line("url_close", <<>>)>>

\* OpenSearchImage::into_nix: the line appended to buf
OpenSearchImage_into_nix(self) == <<Line("iconUpdateURL", UrlDisplay(self.url))>>

\* Mutant of UrlsLines: the entries are written last to first
RECURSIVE UrlsLinesReversed(_)
UrlsLinesReversed(urls) ==
    IF urls = <<>> THEN <<>>
    ELSE UrlsLinesReversed(Tail(urls)) \o OpenSearchUrl_into_nix(Head(urls))

\* self.urls.iter().for_each(|url| url.into_nix(buf))
RECURSIVE UrlsLines(_)
UrlsLines(urls) ==
    IF urls = <<>> THEN <<>> ELSE OpenSearchUrl_into_nix(Head(urls)) \o UrlsLines(Tail(urls))

\* sorted_images.into_iter().next(): Option<OpenSearchImage> as a sequence of
\* zero or one image
first_image(sorted_images) ==
    IF sorted_images = <<>> THEN <<>> ELSE <<Head(sorted_images)>>

\* OpenSearchDescription::into_nix after its assert!: [err, buf]
into_nix_writes(self, buf, checks, impl) ==
    LET with_urls == buf \o <<Line("attrset_open", <<self.short_name>>),
                              Line("urls_open", <<>>)>>
                         \o UrlsLines(self.urls)
                         \o <<Line("urls_close", <<>>)>>
        sorted_images == sort(self.images, checks, impl)
    IN IF sorted_images.panicked THEN [err |-> MULTIPLY_OVERFLOW, buf |-> with_urls]
       ELSE LET icon == first_image(sorted_images.v)
            IN [err |-> "",
                buf |-> with_urls
                        \o (IF icon = <<>> THEN <<>> ELSE OpenSearchImage_into_nix(icon[1]))
                        \o <<Line("description", <<self.description>>),
                             Line("attrset_close", <<>>)>>]

\* Mutant of OpenSearchDescription_into_nix: the assert! is left out
into_nix_unasserted(self, buf, checks, impl) == into_nix_writes(self, buf, checks, impl)

\* OpenSearchDescription::into_nix(self, buf): [err, buf]; err is the panic
\* message ("" when it returns), buf is the buffer as the call leaves it
OpenSearchDescription_into_nix(self, buf, checks, impl) ==
    IF self.urls = <<>> THEN [err |-> NO_URLS, buf |-> buf]
    ELSE into_nix_writes(self, buf, checks, impl)

----------------------------------------------------------------------------
(* main *)

FETCH_PAGE_FAILED == "Failed to send get request to webpage"
FETCH_OPENSEARCH_FAILED == "Failed to send opensearch get request"

\* The order of the stages of main
STAGE_ORDER ==
    <<"get_webpage_raw", "select_opensearch_url", "get_opensearch_raw",
      "deserialize_opensearch_xml", "into_nix", "println">>

\* `if args.verbose { println!(..) }`
progress(message) == IF verbose THEN <<Line("progress", <<message>>)>> ELSE <<>>

\* get_webpage_raw(args.website).await
get_webpage_raw ==
    /\ pc = "start"
    /\ stages' = Append(stages, "get_webpage_raw")
    /\ stdout' = stdout \o progress("Fetching HTML page")
    /\ IF net_page.ok
       THEN pc' = "webpage_raw" /\ panic' = panic
       ELSE pc' = "panicked" /\ panic' = FETCH_PAGE_FAILED
    /\ UNCHANGED <<verbose, website, overflow_checks, sort_impl, net_page, net_descriptor,
                   webpage, opensearch_url, opensearch, nix>>

\* parse_webpage(webpage_raw); select_opensearch_url(&webpage, &args.website)
locate_opensearch_url ==
    /\ pc = "webpage_raw"
    /\ stages' = Append(stages, "select_opensearch_url")
    /\ stdout' = stdout \o progress("Received webpage; parsing...")
    /\ webpage' = net_page.document
    /\ LET located == select_opensearch_url(net_page.document, website)
       IN IF located.err = ""
          THEN pc' = "located" /\ panic' = panic /\ opensearch_url' = located.url
          ELSE pc' = "panicked" /\ panic' = located.err /\ opensearch_url' = opensearch_url
    /\ UNCHANGED <<verbose, website, overflow_checks, sort_impl, net_page, net_descriptor,
                   opensearch, nix>>

\* get_opensearch_raw(opensearch_url).await
get_opensearch_raw ==
    /\ pc = "located"
    /\ stages' = Append(stages, "get_opensearch_raw")
    /\ stdout' = stdout \o progress("Found opensearch url")
    /\ IF net_descriptor.ok
       THEN pc' = "opensearch_raw" /\ panic' = panic
       ELSE pc' = "panicked" /\ panic' = FETCH_OPENSEARCH_FAILED
    /\ UNCHANGED <<verbose, website, overflow_checks, sort_impl, net_page, net_descriptor,
                   webpage, opensearch_url, opensearch, nix>>

\* deserialize_opensearch_xml(opensearch_raw)
deserialize ==
    /\ pc = "opensearch_raw"
    /\ stages' = Append(stages, "deserialize_opensearch_xml")
    /\ stdout' = stdout \o progress("Received opensearch file; parsing...")
    /\ LET parsed == deserialize_opensearch_xml(net_descriptor)
       IN IF parsed.err = ""
          THEN pc' = "deserialized" /\ panic' = panic /\ opensearch' = parsed.description
          ELSE pc' = "panicked" /\ panic' = parsed.err /\ opensearch' = opensearch
    /\ UNCHANGED <<verbose, website, overflow_checks, sort_impl, net_page, net_descriptor,
                   webpage, opensearch_url, nix>>

\* Mutant of serialize: the run goes on to print after a panic of into_nix
serialize_ignoring_panic ==
    /\ pc = "deserialized"
    /\ stages' = Append(stages, "into_nix")
    /\ stdout' = stdout \o progress("Serializing into Nix...")
    /\ LET written == OpenSearchDescription_into_nix(opensearch, <<>>, overflow_checks, sort_impl)
       IN nix' = written.buf /\ pc' = "serialized" /\ panic' = written.err
    /\ UNCHANGED <<verbose, website, overflow_checks, sort_impl, net_page, net_descriptor,
                   webpage, opensearch_url, opensearch>>

\* let mut nix = String::new(); opensearch.into_nix(&mut nix)
serialize ==
    /\ pc = "deserialized"
    /\ stages' = Append(stages, "into_nix")
    /\ stdout' = stdout \o progress("Serializing into Nix...")
    /\ LET written == OpenSearchDescription_into_nix(opensearch, <<>>, overflow_checks, sort_impl)
       IN /\ nix' = written.buf
          /\ IF written.err = ""
             THEN pc' = "serialized" /\ panic' = panic
             ELSE pc' = "panicked" /\ panic' = written.err
    /\ UNCHANGED <<verbose, website, overflow_checks, sort_impl, net_page, net_descriptor,
                   webpage, opensearch_url, opensearch>>

\* println!("{}", nix)
print_nix ==
    /\ pc = "serialized"
    /\ stages' = Append(stages, "println")
    /\ stdout' = stdout \o nix
    /\ pc' = "done"
    /\ UNCHANGED <<verbose, website, overflow_checks, sort_impl, net_page, net_descriptor,
                   webpage, opensearch_url, opensearch, nix, panic>>

Next ==
    \/ get_webpage_raw
    \/ locate_opensearch_url
    \/ get_opensearch_raw
    \/ deserialize
    \/ serialize
    \/ print_nix

----------------------------------------------------------------------------
(* Inputs *)

Website == MkUrl("https://example.com", <<"">>, NoQuery)
WebsiteDeep == MkUrl("https://example.com", <<"docs", "index.html">>, NoQuery)

RefRelative == MkRef("relative", "", <<"opensearch.xml">>)
RefPath == MkRef("path", "", <<"search", "osd.xml">>)
RefAbsolute == MkRef("absolute", "https://cdn.example.net", <<"osd.xml">>)
RefEmpty == MkRef("empty", "", <<>>)
RefInvalid == MkRef("invalid", "", <<>>)

Link(rel, type, href) == MkElement("link", rel, type, href, <<>>)

LinkRelative == Link(Some(META_TAG_REL), Some(META_TAG_TYPE), SomeRef(RefRelative))
LinkPath == Link(Some(META_TAG_REL), Some(META_TAG_TYPE), SomeRef(RefPath))
LinkAbsolute == Link(Some(META_TAG_REL), Some(META_TAG_TYPE), SomeRef(RefAbsolute))
LinkEmptyHref == Link(Some(META_TAG_REL), Some(META_TAG_TYPE), SomeRef(RefEmpty))
LinkInvalidHref == Link(Some(META_TAG_REL), Some(META_TAG_TYPE), SomeRef(RefInvalid))
LinkNoHref == Link(Some(META_TAG_REL), Some(META_TAG_TYPE), NoRef)
LinkRelOnly == Link(Some(META_TAG_REL), Some("text/html"), SomeRef(RefPath))
LinkTypeOnly == Link(Some("alternate"), Some(META_TAG_TYPE), SomeRef(RefAbsolute))
LinkNoAttrs == Link(None, None, NoRef)

HeadChildren ==
    {LinkRelative, LinkPath, LinkAbsolute, LinkEmptyHref, LinkInvalidHref, LinkNoHref,
     LinkRelOnly, LinkTypeOnly, LinkNoAttrs, TextNode}

RootChildren == {MkElement("head", None, None, NoRef, <<>>),
                 MkElement("body", None, None, NoRef, <<>>)}

\* The tree a preorder listing of nodes stands for: a head or body opens a child
\* of the root, any other node becomes a child of the last opened one
RECURSIVE TreeOf(_, _)
TreeOf(nodes, root_children) ==
    IF nodes = <<>> THEN root_children
    ELSE IF Head(nodes) \in RootChildren
         THEN TreeOf(Tail(nodes), Append(root_children, Head(nodes)))
    ELSE TreeOf(Tail(nodes),
                [root_children EXCEPT ![Len(root_children)].children = Append(@, Head(nodes))])

\* Every document of at most n nodes below the root
Documents(n) ==
    {TreeOf(nodes, <<>>) :
        nodes \in {s \in SeqsUpTo(HeadChildren \cup RootChildren, n) :
                      s = <<>> \/ s[1] \in RootChildren}}

PageOk(document) == [ok |-> TRUE, document |-> document]
PageFetchFailed == [ok |-> FALSE, document |-> <<>>]

\* A usual page: html > (head > (text, stylesheet-like link, opensearch link), body)
UsualDocument ==
    TreeOf(<<MkElement("head", None, None, NoRef, <<>>), TextNode, LinkTypeOnly,
             LinkRelative, MkElement("body", None, None, NoRef, <<>>)>>, <<>>)

DescriptorOk(values) == [ok |-> TRUE, well_formed |-> TRUE, values |-> values]
DescriptorMalformed == [ok |-> TRUE, well_formed |-> FALSE, values |-> <<>>]
DescriptorFetchFailed == [ok |-> FALSE, well_formed |-> FALSE, values |-> <<>>]

SearchTerms == <<"q", "=", "{searchTerms}">>

UrlHtml ==
    MkOpenSearchUrl("text/html",
                    MkUrl("https://example.com", <<"search">>, SomeQuery(SearchTerms)))
UrlJson ==
    MkOpenSearchUrl("application/x-suggestions+json",
                    MkUrl("https://example.com", <<"json">>, NoQuery))
UrlXml ==
    MkOpenSearchUrl("application/x-suggestions+xml",
                    MkUrl("https://example.com", <<"xml">>, SomeQuery(SearchTerms)))

IconUrl(name) == MkUrl("https://example.com", <<name>>, NoQuery)

SomeU16(n) == [some |-> TRUE, v |-> n]

Image16 == MkImage("image/x-icon", SomeU16(16), SomeU16(16), IconUrl("image16.ico"))
Image32 == MkImage("image/x-icon", SomeU16(32), SomeU16(32), IconUrl("image32.ico"))

\* A descriptor like the one of the source's test deserialize_xml
UsualValues ==
    <<XmlShortName("Test"), XmlImage(Image16), XmlImage(Image32), XmlUrl(UrlHtml),
      XmlDescription("Hi there"), XmlUrl(UrlJson), XmlUrl(UrlXml)>>

Toolchains == {"shift_left", "from_right"}

\* The state at the start of main, for the given sets of inputs
InitWith(websites, verboses, checks, toolchains, pages, descriptors) ==
    /\ pc = "start"
    /\ verbose \in verboses
    /\ website \in websites
    /\ overflow_checks \in checks
    /\ sort_impl \in toolchains
    /\ net_page \in pages
    /\ net_descriptor \in descriptors
    /\ webpage = <<>>
    /\ opensearch_url = NoUrl
    /\ opensearch = EmptyDescription
    /\ nix = <<>>
    /\ stdout = <<>>
    /\ panic = ""
    /\ stages = <<>>

----------------------------------------------------------------------------
(* Specifications: the same program, run on different sets of inputs *)

\* Pages and descriptors of every outcome, for whole runs
Image256 == MkImage("image/x-icon", SomeU16(256), SomeU16(256), IconUrl("image256.ico"))

RunPages ==
    {PageFetchFailed, PageOk(UsualDocument), PageOk(<<>>),
     PageOk(TreeOf(<<MkElement("head", None, None, NoRef, <<>>), LinkNoHref>>, <<>>)),
     PageOk(TreeOf(<<MkElement("head", None, None, NoRef, <<>>), LinkInvalidHref>>, <<>>))}

RunDescriptors ==
    {DescriptorFetchFailed, DescriptorMalformed, DescriptorOk(UsualValues),
     DescriptorOk(<<>>),
     DescriptorOk(<<XmlShortName("Test"), XmlImage(Image16), XmlOther>>),
     DescriptorOk(<<XmlShortName("Test"), XmlUrl(UrlHtml), XmlShortName("Again")>>),
     DescriptorOk(<<XmlDescription("Hi"), XmlDescription("there"), XmlUrl(UrlHtml)>>),
     DescriptorOk(<<XmlUrl(UrlJson), XmlOther>>),
     DescriptorOk(<<XmlUrl(UrlHtml), XmlImage(Image32), XmlImage(Image256)>>)}

Init ==
    InitWith({Website, WebsiteDeep}, BOOLEAN, BOOLEAN, Toolchains, RunPages, RunDescriptors)

Spec == Init /\ [][Next]_vars

\* Every page of at most MaxNodes nodes
InitLocate ==
    InitWith({Website, WebsiteDeep}, {FALSE}, {FALSE}, {"shift_left"},
             {PageFetchFailed} \cup {PageOk(d) : d \in Documents(MaxNodes)},
             {DescriptorOk(UsualValues)})

SpecLocate == InitLocate /\ [][Next]_vars

\* Every descriptor of at most MaxValues child elements
XmlValues ==
    {XmlShortName("Test"), XmlDescription("Hi there"), XmlImage(Image16), XmlImage(Image32),
     XmlUrl(UrlHtml), XmlUrl(UrlJson), XmlOther}

InitNormalize ==
    InitWith({Website}, {FALSE}, {TRUE}, Toolchains,
             {PageOk(UsualDocument)},
             {DescriptorMalformed, DescriptorFetchFailed}
                 \cup {DescriptorOk(v) : v \in SeqsUpTo(XmlValues, MaxValues)})

SpecNormalize == InitNormalize /\ [][Next]_vars

\* Every query of at most MaxQueryLen characters, in a descriptor with other elements
QueryChars == {"q", "=", "&", "+", "{searchTerms}"}

Queries == {NoQuery} \cup {SomeQuery(q) : q \in SeqsUpTo(QueryChars, MaxQueryLen)}

QueryUrls ==
    {MkOpenSearchUrl("text/html", MkUrl("https://example.com", <<"search">>, q)) :
        q \in Queries}

InitEmit ==
    InitWith({Website}, BOOLEAN, {TRUE}, {"shift_left"},
             {PageOk(UsualDocument)},
             {DescriptorMalformed, DescriptorFetchFailed}
                 \cup {DescriptorOk(before \o <<XmlUrl(u)>> \o after) :
                          before \in {<<>>, <<XmlShortName("Test"), XmlUrl(UrlXml)>>},
                          after \in {<<>>, <<XmlImage(Image16), XmlUrl(UrlJson)>>},
                          u \in QueryUrls})

SpecEmit == InitEmit /\ [][Next]_vars

\* Every collection of at most MaxImages images, of two MIME types and of sizes
\* whose product does and does not fit in 16 bits
ImageTypes == {"image/x-icon", "image/png"}

ImageSizes ==
    {<<NoneU16, NoneU16>>, <<SomeU16(16), SomeU16(16)>>, <<SomeU16(32), SomeU16(32)>>,
     <<SomeU16(256), SomeU16(256)>>, <<SomeU16(300), SomeU16(300)>>}

IconNames == <<"icon1", "icon2", "icon3", "icon4", "icon5", "icon6">>

ImageCollections(n) ==
    {[i \in 1..Len(s) |-> MkImage(s[i][1], s[i][2][1], s[i][2][2], IconUrl(IconNames[i]))] :
        s \in SeqsUpTo(ImageTypes \X ImageSizes, n)}

RECURSIVE XmlImages(_)
XmlImages(images) ==
    IF images = <<>> THEN <<>> ELSE <<XmlImage(Head(images))>> \o XmlImages(Tail(images))

InitIcon ==
    InitWith({Website}, {FALSE}, BOOLEAN, Toolchains,
             {PageOk(UsualDocument)},
             {DescriptorMalformed, DescriptorFetchFailed}
                 \cup {DescriptorOk(<<XmlUrl(UrlHtml)>> \o XmlImages(images)) :
                          images \in ImageCollections(MaxImages)})

SpecIcon == InitIcon /\ [][Next]_vars

----------------------------------------------------------------------------
(* Vocabulary of the properties *)

Ran(stage) == \E i \in DOMAIN stages : stages[i] = stage

LastStage == IF stages = <<>> THEN "" ELSE stages[Len(stages)]

\* The positions of the lines of a buffer that have the given key, ascending
PositionsOf(buf, key) ==
    SelectSeq([i \in 1..Len(buf) |-> i], LAMBDA i : buf[i].key = key)

LinesOf(buf, key) == SelectSeq(buf, LAMBDA l : l.key = key)

\* What stdout holds besides the progress lines of --verbose
ConfigLines(out) == SelectSeq(out, LAMBDA l : l.key # "progress")

InputValues == net_descriptor.values

WellFormedInput == net_descriptor.ok /\ net_descriptor.well_formed

CountTag(values, tag) == Cardinality({i \in 1..Len(values) : values[i].tag = tag})

HasDuplicate(values) ==
    CountTag(values, "ShortName") >= 2 \/ CountTag(values, "Description") >= 2

DuplicateField == {MULTIPLE_SHORT_NAMES, MULTIPLE_DESCRIPTIONS}

\* The Url payloads of the tagged values, in the order of the document
InputUrls(values) ==
    LET tagged == SelectSeq(values, LAMBDA x : x.tag = "Url")
    IN [i \in 1..Len(tagged) |-> tagged[i].url]

InputImages(values) ==
    LET tagged == SelectSeq(values, LAMBDA x : x.tag = "Image")
    IN [i \in 1..Len(tagged) |-> tagged[i].image]

----------------------------------------------------------------------------
(* C1 *)

\* C1 as stated: normalizing a sequence with zero Url variants always fails with
\* NoUrlsDefined, in the conversion itself, and never returns a Descriptor whose
\* urls is empty.
C1_NormalizeFailsWithoutUrls ==
    (Ran("deserialize_opensearch_xml") /\ WellFormedInput
        /\ CountTag(InputValues, "Url") = 0)
    => (pc = "panicked" /\ panic = NO_URLS /\ ~Ran("into_nix"))

\* C1 as amended: for a sequence with zero Url variants the conversion fails only
\* on a duplicate ShortName or Description; otherwise it returns a Descriptor
\* whose urls is empty, and into_nix then fails with NoUrlsDefined before it
\* writes anything, so that nothing of it is ever printed.
C1_NoUrlsFailsInIntoNix ==
    (Ran("deserialize_opensearch_xml") /\ WellFormedInput
        /\ CountTag(InputValues, "Url") = 0)
    => IF HasDuplicate(InputValues)
       THEN pc = "panicked" /\ panic \in DuplicateField /\ ~Ran("into_nix")
       ELSE IF ~Ran("into_nix")
       THEN pc = "deserialized" /\ panic = "" /\ opensearch.urls = <<>>
            /\ opensearch.images = InputImages(InputValues)
       ELSE pc = "panicked" /\ panic = NO_URLS /\ LastStage = "into_nix"
            /\ nix = <<>> /\ ConfigLines(stdout) = <<>>

C1_Witness ==
    /\ pc = "panicked" /\ panic = NO_URLS
    /\ WellFormedInput
    /\ CountTag(InputValues, "Url") = 0
    /\ CountTag(InputValues, "Image") >= 1
    /\ CountTag(InputValues, "ShortName") = 1
    /\ CountTag(InputValues, "Other") >= 1

----------------------------------------------------------------------------
(* C2 *)

\* C2: the conversion fails with DuplicateField exactly when the sequence holds
\* two or more ShortName variants or two or more Description variants, whatever
\* their positions and whatever else the sequence holds; the failure ends the run
\* in the conversion.
C2_DuplicateFieldIffRepeated ==
    (Ran("deserialize_opensearch_xml") /\ WellFormedInput)
    => /\ HasDuplicate(InputValues) <=> panic \in DuplicateField
       /\ panic \in DuplicateField
            => pc = "panicked" /\ LastStage = "deserialize_opensearch_xml"
       /\ panic = MULTIPLE_SHORT_NAMES => CountTag(InputValues, "ShortName") >= 2
       /\ panic = MULTIPLE_DESCRIPTIONS => CountTag(InputValues, "Description") >= 2

C2_Witness ==
    /\ pc = "panicked" /\ panic = MULTIPLE_SHORT_NAMES
    /\ Len(InputValues) = 4
    /\ InputValues[1].tag = "Url"
    /\ InputValues[2].tag = "ShortName"
    /\ InputValues[3].tag = "Image"
    /\ InputValues[4].tag = "ShortName"

----------------------------------------------------------------------------
(* C4 *)

\* The text of a template field: the URL without its query
QuerylessText(url) == <<url.origin>> \o PathDisplay(url.path)

\* C4: once into_nix has run on a descriptor with at least one URL, the buffer
\* holds exactly one urls block, and its entries are the descriptor's urls, one
\* entry each, in the order of the document: the i-th entry carries the template
\* and the type of the i-th Url element.
C4_UrlsBlockInOrder ==
    (Ran("into_nix") /\ opensearch.urls # <<>>)
    => LET opens == PositionsOf(nix, "urls_open")
           closes == PositionsOf(nix, "urls_close")
           entry_opens == PositionsOf(nix, "url_open")
           entry_closes == PositionsOf(nix, "url_close")
           templates == PositionsOf(nix, "template")
           types == PositionsOf(nix, "type")
           n == Len(opensearch.urls)
       IN /\ opensearch.urls = InputUrls(InputValues)
          /\ Len(opens) = 1 /\ Len(closes) = 1
          /\ Len(entry_opens) = n /\ Len(entry_closes) = n
          /\ Len(templates) = n /\ Len(types) = n
          /\ \A i \in 1..n :
                /\ opens[1] < entry_opens[i]
                /\ entry_opens[i] < templates[i]
                /\ templates[i] < types[i]
                /\ types[i] < entry_closes[i]
                /\ entry_closes[i] < closes[1]
                /\ i < n => entry_closes[i] < entry_opens[i + 1]
                /\ nix[templates[i]].text = QuerylessText(InputUrls(InputValues)[i].template)
                /\ nix[types[i]].text = <<InputUrls(InputValues)[i].template_type>>

C4_Witness ==
    /\ pc = "done"
    /\ Len(opensearch.urls) = 3
    /\ opensearch.urls[1] = UrlJson
    /\ opensearch.urls[2] = UrlHtml
    /\ opensearch.urls[3] = UrlJson
    /\ ConfigLines(stdout) = nix

----------------------------------------------------------------------------
(* C5 *)

\* The lines of the i-th entry of the urls block
EntryLines(i) ==
    SubSeq(nix, PositionsOf(nix, "url_open")[i], PositionsOf(nix, "url_close")[i])

\* The number of non-empty '&'-separated segments of a query
CountSegments(q) ==
    Cardinality({k \in 1..Len(q) : q[k] # "&" /\ (k = 1 \/ q[k - 1] = "&")})

\* What C5 says of the i-th entry in all its readings: a params key exactly for
\* a template with a query, holding the template's pairs in order, and a
\* template field without the query
EntryFollowsQuery(i) ==
    LET url == InputUrls(InputValues)[i].template
        entry == EntryLines(i)
        names == LinesOf(entry, "name")
        values == LinesOf(entry, "value")
        pairs == query_pairs(url)
        template == LinesOf(entry, "template")
    IN /\ Len(LinesOf(entry, "params_open")) = (IF url.query.some THEN 1 ELSE 0)
       /\ Len(LinesOf(entry, "params_close")) = Len(LinesOf(entry, "params_open"))
       /\ Len(names) = Len(pairs) /\ Len(values) = Len(pairs)
       /\ Len(LinesOf(entry, "param_open")) = Len(pairs)
       /\ Len(pairs) = CountSegments(url.query.v)
       /\ \A j \in 1..Len(pairs) :
             names[j].text = pairs[j].name /\ values[j].text = pairs[j].value
       /\ Len(template) = 1
       /\ \A k \in 1..Len(template[1].text) : template[1].text[k] # "?"

EntryHasEmptyParams(i) ==
    /\ LinesOf(EntryLines(i), "params_open") # <<>>
    /\ LinesOf(EntryLines(i), "param_open") = <<>>

\* C5 as stated: every entry follows its template's query, and in no case is a
\* params key written with an empty list.
C5_ParamsNeverEmpty ==
    (Ran("into_nix") /\ opensearch.urls # <<>>)
    => \A i \in 1..Len(InputUrls(InputValues)) :
          EntryFollowsQuery(i) /\ ~EntryHasEmptyParams(i)

\* C5 as amended: every entry follows its template's query, and a params key is
\* written with an empty list exactly when the template carries a query string
\* that holds no pair: an empty one ("...?") or one made of '&' only.
C5_ParamsEmptyOnlyForPairlessQuery ==
    (Ran("into_nix") /\ opensearch.urls # <<>>)
    => \A i \in 1..Len(InputUrls(InputValues)) :
          LET query == InputUrls(InputValues)[i].template.query
          IN /\ EntryFollowsQuery(i)
             /\ EntryHasEmptyParams(i)
                  <=> (query.some /\ \A k \in 1..Len(query.v) : query.v[k] = "&")

C5_Witness ==
    /\ pc = "done"
    /\ Len(opensearch.urls) = 3
    /\ opensearch.urls[2].template.query = SomeQuery(<<>>)
    /\ EntryHasEmptyParams(2)
    /\ ~EntryHasEmptyParams(1)
    /\ LinesOf(EntryLines(3), "params_open") = <<>>

----------------------------------------------------------------------------
(* C3, C6, C10 *)

\* width x height as a number, 0 for a missing dimension
TrueArea(image) == unwrap_or_default(image.width) * unwrap_or_default(image.height)

\* The images of the collection that the icon line names
SelectedIcons ==
    {i \in 1..Len(opensearch.images) :
        LinesOf(nix, "iconUpdateURL")
            = <<Line("iconUpdateURL", UrlDisplay(opensearch.images[i].url))>>}

SameType(images) == \A i, j \in 1..Len(images) : images[i].image_type = images[j].image_type

\* C3: over a collection whose images all share one mimeType, whatever their
\* widths and heights, the sort puts an image of the largest width x height
\* first, and that image is the icon.
C3_LargestTrueAreaSelected ==
    (Ran("into_nix") /\ opensearch.urls # <<>> /\ opensearch.images # <<>>
        /\ SameType(opensearch.images))
    => /\ pc # "panicked"
       /\ \E i \in SelectedIcons :
             \A j \in 1..Len(opensearch.images) :
                 TrueArea(opensearch.images[j]) <= TrueArea(opensearch.images[i])

\* C6: once into_nix has run, the buffer holds an iconUpdateURL line exactly
\* when the collection is not empty; there is exactly one, it names an image of
\* the collection, and it names the only image of a collection of one.
C6_IconIffImages ==
    (Ran("into_nix") /\ opensearch.urls # <<>>)
    => LET icons == LinesOf(nix, "iconUpdateURL")
       IN /\ opensearch.images = <<>> => icons = <<>>
          /\ opensearch.images # <<>> => Len(icons) = 1 /\ SelectedIcons # {}
          /\ Len(opensearch.images) = 1 => SelectedIcons = {1}

\* C10 as stated, for the collections whose products all fit in 16 bits: in a
\* collection that mixes MIME types the icon is never smaller in area than
\* another image of its own mimeType.
C10_MaximalAmongOwnType ==
    (Ran("into_nix") /\ opensearch.urls # <<>> /\ ~SameType(opensearch.images)
        /\ \A j \in 1..Len(opensearch.images) :
               TrueArea(opensearch.images[j]) < U16_MODULUS)
    => \A i \in SelectedIcons :
          \A j \in 1..Len(opensearch.images) :
              opensearch.images[j].image_type = opensearch.images[i].image_type
                  => TrueArea(opensearch.images[j]) <= TrueArea(opensearch.images[i])

\* The images before the first image of another mimeType than the first one's
LeadingRun(images) ==
    {i \in 1..Len(images) : \A k \in 1..i : images[k].image_type = images[1].image_type}

\* C10 as amended: whenever the sort completes on a collection that is not
\* empty, the icon is the first image of maximal 16-bit product width x height
\* among the leading images that share the first image's mimeType; an image
\* after the first change of mimeType is never selected, whatever its area.
C10_MaximalAmongLeadingRun ==
    (Ran("into_nix") /\ opensearch.urls # <<>> /\ opensearch.images # <<>>
        /\ pc # "panicked")
    => /\ Cardinality(SelectedIcons) = 1
       /\ \A i \in SelectedIcons :
             /\ i \in LeadingRun(opensearch.images)
             /\ \A j \in LeadingRun(opensearch.images) :
                   /\ TrueArea(opensearch.images[j]) % U16_MODULUS
                        <= TrueArea(opensearch.images[i]) % U16_MODULUS
                   /\ j < i => TrueArea(opensearch.images[j]) % U16_MODULUS
                                 < TrueArea(opensearch.images[i]) % U16_MODULUS

C10_Witness ==
    /\ pc = "done"
    /\ Len(opensearch.images) = 3
    /\ opensearch.images[1].image_type = opensearch.images[3].image_type
    /\ opensearch.images[1].image_type # opensearch.images[2].image_type
    /\ TrueArea(opensearch.images[1]) = 256
    /\ TrueArea(opensearch.images[3]) = 1024
    /\ SelectedIcons = {1}

----------------------------------------------------------------------------
(* C7, C9 *)

\* The element children of the root that are named head, in document order
Heads(document) == SelectSeq(child_elements(document), LAMBDA e : e.name = "head")

\* The element children of a sequence of elements, one after the other
RECURSIVE ChildrenOf(_)
ChildrenOf(elements) ==
    IF elements = <<>> THEN <<>>
    ELSE child_elements(Head(elements).children) \o ChildrenOf(Tail(elements))

Qualifies(element) ==
    /\ element.rel = Some("search")
    /\ element.type = Some("application/opensearchdescription+xml")

FirstQualifying(elements) ==
    elements[CHOOSE i \in 1..Len(elements) :
                 /\ Qualifies(elements[i])
                 /\ \A k \in 1..(i - 1) : ~Qualifies(elements[k])]

HasQualifying(elements) == \E i \in 1..Len(elements) : Qualifies(elements[i])

\* What each reference of the explored pages resolves to against each website
ResolvedAgainst(base, ref) ==
    CASE ref = RefAbsolute -> MkUrl("https://cdn.example.net", <<"osd.xml">>, NoQuery)
      [] ref = RefPath -> MkUrl("https://example.com", <<"search", "osd.xml">>, NoQuery)
      [] ref = RefRelative /\ base = Website ->
             MkUrl("https://example.com", <<"opensearch.xml">>, NoQuery)
      [] ref = RefRelative /\ base = WebsiteDeep ->
             MkUrl("https://example.com", <<"docs", "opensearch.xml">>, NoQuery)
      [] ref = RefEmpty -> base

\* The run located the link `element`: its href resolved against the website, or
\* the failure of a missing or an unresolvable href
LocatedBy(element) ==
    IF ~element.href.some
    THEN pc = "panicked" /\ panic = LOCATE_NO_HREF /\ opensearch_url = NoUrl
    ELSE IF element.href.v = RefInvalid
    THEN pc = "panicked" /\ panic = LOCATE_BAD_URL /\ opensearch_url = NoUrl
    ELSE panic = "" /\ opensearch_url = ResolvedAgainst(website, element.href.v)

\* C7: the locator's result is decided by the first child of head, in document
\* order, whose rel is "search" and whose type is
\* "application/opensearchdescription+xml": its href resolved against the
\* website (a missing or unresolvable href of that element fails the run);
\* children matching one attribute only are skipped, a later qualifying child
\* changes nothing, and without a qualifying child the run fails with NotFound.
C7_FirstQualifyingLink ==
    Ran("select_opensearch_url")
    => LET links == ChildrenOf(Heads(net_page.document))
       IN IF HasQualifying(links)
          THEN LocatedBy(FirstQualifying(links))
          ELSE pc = "panicked" /\ panic = LOCATE_NOT_FOUND

C7_Witness ==
    /\ pc = "located"
    /\ website = WebsiteDeep
    /\ Len(webpage) = 1
    /\ webpage[1].children = <<LinkRelOnly, LinkTypeOnly, LinkRelative>>
    /\ opensearch_url = MkUrl("https://example.com", <<"docs", "opensearch.xml">>, NoQuery)

\* C9 as stated: only the first head is visited, so that a first head without a
\* qualifying link gives NotFound even when a later head holds one.
C9_OnlyFirstHeadVisited ==
    (Ran("select_opensearch_url") /\ Len(Heads(net_page.document)) >= 2
        /\ ~HasQualifying(child_elements(Heads(net_page.document)[1].children)))
    => pc = "panicked" /\ panic = LOCATE_NOT_FOUND

\* C9 as amended: every child of the root named head is visited, in document
\* order, until one holds a qualifying link: the run fails with NotFound exactly
\* when no head holds one, and a first head without a qualifying link leaves the
\* result to the first later head that holds one. Children of other elements
\* are never examined.
C9_HeadsVisitedInOrder ==
    Ran("select_opensearch_url")
    => LET heads == Heads(net_page.document)
           holders == {h \in 1..Len(heads) : HasQualifying(child_elements(heads[h].children))}
       IN /\ panic = LOCATE_NOT_FOUND <=> holders = {}
          /\ holders # {}
               => LET h == CHOOSE x \in holders : \A y \in holders : x <= y
                  IN LocatedBy(FirstQualifying(child_elements(heads[h].children)))

C9_Witness ==
    /\ pc = "located"
    /\ Len(webpage) = 2
    /\ webpage[1].name = "head" /\ webpage[1].children = <<LinkRelOnly>>
    /\ webpage[2].name = "head" /\ webpage[2].children = <<LinkAbsolute>>
    /\ opensearch_url = MkUrl("https://cdn.example.net", <<"osd.xml">>, NoQuery)

----------------------------------------------------------------------------
(* C8 *)

\* C8: the stages run in the order of main, each after the one before it has
\* succeeded; a failure ends the run, with no stage after it; and stdout holds
\* configuration text only at the end of a run in which every stage succeeded
\* and the descriptor has at least one URL, and then it holds all of it.
C8_NoPartialSuccess ==
    /\ stages = SubSeq(STAGE_ORDER, 1, Len(stages))
    /\ panic # "" <=> pc = "panicked"
    /\ pc = "panicked" => ~ENABLED Next
    /\ Ran("get_opensearch_raw")
         => net_page.ok /\ opensearch_url # NoUrl /\ webpage = net_page.document
    /\ Ran("into_nix") => WellFormedInput /\ ~HasDuplicate(InputValues)
    /\ ConfigLines(stdout) # <<>>
         => /\ pc = "done" /\ panic = ""
            /\ stages = STAGE_ORDER
            /\ opensearch.urls # <<>>
            /\ CountTag(InputValues, "Url") >= 1
            /\ ConfigLines(stdout) = nix
            /\ nix[Len(nix)].key = "attrset_close"
    /\ pc = "done" => ConfigLines(stdout) # <<>>

C8_Witness ==
    /\ pc = "panicked" /\ panic = MULTIPLY_OVERFLOW
    /\ verbose
    /\ Len(stdout) = 5
    /\ ConfigLines(stdout) = <<>>
    /\ LinesOf(nix, "urls_close") # <<>>

====
